---- MODULE Spec2Model ----
(***************************************************************************)
(* The shape functions of test6_functions.py (generateCircle,              *)
(* generateRectangle, generateLine) and the caller objects they read and   *)
(* write.                                                                  *)
(*                                                                         *)
(* Numbers.  The functions compute with Python floats.  A float is         *)
(* modelled as a fixed-point number: the integer n stands for n / Scale,   *)
(* and every multiplication, division and square root is rounded to the    *)
(* nearest representable value, as every float operation is.  Additions    *)
(* and subtractions of representable values are exact.                     *)
(*                                                                         *)
(* Containers.  The interface documents points as tuples and the callers   *)
(* of the repository pass lists; Python concatenates a list only with a    *)
(* list and a tuple only with a tuple, and only a list takes an item       *)
(* assignment.  Each point argument therefore carries its container kind.  *)
(***************************************************************************)
EXTENDS Integers, Sequences, FiniteSets, TLC

\* ------------------------------------------------------------ bounds
\* coordinates of the points the caller passes: 0 .. MaxCoord
MaxCoord == 3
\* radius of the circles the caller asks for: 1 .. MaxRadius
MaxRadius == 2
\* num_points of the circles the caller asks for: 0 .. MaxPoints
MaxPoints == 6
\* widths, heights and line thicknesses, in halves: 0 .. MaxHalves
MaxHalves == 4
\* calls the caller makes on the same argument objects
MaxCalls == 2

\* ------------------------------------------------------- float model
\* the representable values are the multiples of 1 / Scale
Scale == 1000
\* the literals 0.5 and 1.0
Half == Scale \div 2
One == Scale

Abs(a) == IF a < 0 THEN 0 - a ELSE a

\* a / b rounded to the nearest integer (b # 0)
RoundDiv(a, b) ==
    IF b > 0 THEN (2 * a + b) \div (2 * b)
    ELSE ((0 - 2 * a) + (0 - b)) \div (2 * (0 - b))

\* float multiplication and division
FMul(a, b) == RoundDiv(a * b, Scale)
FDiv(a, b) == RoundDiv(a * Scale, b)

RECURSIVE ISqrtBetween(_, _, _)
ISqrtBetween(n, lo, hi) ==
    IF lo >= hi THEN lo
    ELSE LET mid == (lo + hi + 1) \div 2
         IN  IF mid * mid <= n THEN ISqrtBetween(n, mid, hi)
             ELSE ISqrtBetween(n, lo, mid - 1)

\* the integer nearest to the square root of n >= 0
ISqrt(n) ==
    LET r == ISqrtBetween(n, 0, IF n > 40000 THEN 40000 ELSE n)
    IN  IF n - r * r > r THEN r + 1 ELSE r

\* math.sqrt
FSqrt(a) == ISqrt(a * Scale)

\* math.cos(radians(360.0 / n)) and math.sin(radians(360.0 / n)), rounded
CosTable ==
    << 1000, -1000, -500, 0, 309, 500, 623, 707, 766, 809, 841, 866,
       885, 901, 914, 924, 932, 940, 946, 951, 956, 959, 963, 966,
       969, 971, 973, 975, 977, 978 >>
SinTable ==
    << 0, 0, 866, 1000, 951, 866, 782, 707, 643, 588, 541, 500,
       465, 434, 407, 383, 361, 342, 325, 309, 295, 282, 270, 259,
       249, 239, 231, 223, 215, 208 >>
CosTurn(n) == CosTable[n]
SinTurn(n) == SinTable[n]

\* ------------------------------------------------------ Python values
Kinds == {"list", "tuple"}

\* color * k
RECURSIVE Times(_, _)
Times(s, k) == IF k <= 0 THEN << >> ELSE s \o Times(s, k - 1)

\* a + b on sequences: only two lists or two tuples concatenate
CanConcat(akind, bkind) == akind = bkind

\* p[i] = v: only a list takes an item assignment
CanAssign(kind) == kind = "list"

\* ------------------------------------------------------- the toolkit
\* pyglet.graphics.vertex_list / batch.add: the vertex list holds the
\* declared count and the data it was given
vertex_list(count, vertices, colors) ==
    [status |-> "ok", count |-> count, indexed |-> FALSE, indices |-> << >>,
     vertices |-> vertices, colors |-> colors]

\* pyglet.graphics.vertex_list_indexed / batch.add_indexed
vertex_list_indexed(count, order, vertices, colors) ==
    [status |-> "ok", count |-> count, indexed |-> TRUE, indices |-> order,
     vertices |-> vertices, colors |-> colors]

\* the call does not return: it raises the exception e
Raise(e) ==
    [status |-> e, count |-> 0, indexed |-> FALSE, indices |-> << >>,
     vertices |-> << >>, colors |-> << >>]

\* batch.add / batch.add_indexed: the vertex list is made from the same kind
\* of data, is entered in the batch under the mode given, and is returned
batch_add(count, mode, vertices, colors) ==
    [ret |-> vertex_list(count, vertices, colors), mode |-> mode]

batch_add_indexed(count, mode, order, vertices, colors) ==
    [ret |-> vertex_list_indexed(count, order, vertices, colors), mode |-> mode]

\* a vertex list returned without a batch: no mode is recorded anywhere
Unbatched(vlist) == [ret |-> vlist, mode |-> "none"]

\* ------------------------------------------------- generateRectangle
\* the corners with the top right one raised by the width, not the height
RectangleCornersWidthTwice(origin, width, height) ==
    << origin[1], origin[2],
       origin[1] + width, origin[2],
       origin[1] + width, origin[2] + width,
       origin[1], origin[2] + height >>

\* the four corners, counter-clockwise from the bottom left
RectangleCorners(origin, width, height) ==
    << origin[1], origin[2],
       origin[1] + width, origin[2],
       origin[1] + width, origin[2] + height,
       origin[1], origin[2] + height >>

\* the index buffer of a filled rectangle
RectangleOrder == << 0, 1, 2, 2, 3, 0 >>

generateRectangle(origin, okind, width, height, color, fill, useBatch) ==
    LET vertices == RectangleCorners(origin, width, height)
    IN  IF fill
        THEN IF ~useBatch
             THEN Unbatched(vertex_list_indexed(4, RectangleOrder, vertices,
                                                Times(color, 4)))
             ELSE batch_add_indexed(4, "GL_TRIANGLES", RectangleOrder, vertices,
                                    Times(color, 4))
        ELSE IF ~CanConcat("list", okind)
             THEN Unbatched(Raise("TypeError"))
             ELSE IF ~useBatch
                  THEN Unbatched(vertex_list(5, vertices \o origin, Times(color, 5)))
                  ELSE batch_add(5, "GL_LINE_STRIP", vertices \o origin, Times(color, 5))

\* ------------------------------------------------------ generateLine
\* the two endpoints of a thin line, as given
ThinVertices(p1, p2) == << p1[1], p1[2], p2[1], p2[2] >>

\* bottom left corner of the rectangle that stands for a vertical line
VerticalOrigin(p1, p2, width) ==
    IF p1[2] <= p2[2] THEN << p1[1] - FMul(Half, width), p1[2] >>
    ELSE << p2[1] - FMul(Half, width), p2[2] >>

\* the corner taken from p1 whichever endpoint is the left one
HorizontalOriginFromP1(p1, p2, width) == << p1[1], p1[2] - FMul(Half, width) >>

\* bottom left corner of the rectangle that stands for a horizontal line
HorizontalOrigin(p1, p2, width) ==
    IF p1[1] <= p2[1] THEN << p1[1], p1[2] - FMul(Half, width) >>
    ELSE << p2[1], p2[2] - FMul(Half, width) >>

\* slope of the line, and the cosine and sine of its arctangent
LineSlope(p1, p2) == FDiv(p2[2] - p1[2], p2[1] - p1[1])
LineCosine(slope) == FDiv(One, FSqrt(One + FMul(slope, slope)))
LineSine(slope) == FMul(LineCosine(slope), slope)

\* midpoint of the line
Midpoint(p1, p2) == << FMul(Half, p1[1] + p2[1]), FMul(Half, p1[2] + p2[2]) >>

\* an endpoint translated by the midpoint (what is stored back into it)
Translated(p, mid) == << p[1] - mid[1], p[2] - mid[2] >>

\* one corner: the stored endpoint p, offset by off along y, multiplied by
\* the rotation matrix and translated by the midpoint
Corner(p, off, cosine, sine, mid) ==
    << FMul(p[1], cosine) - FMul(p[2] + off, sine) + mid[1],
       FMul(p[1], sine) + FMul(p[2] + off, cosine) + mid[2] >>

\* the index buffer of a thick line
LineOrder == << 0, 1, 3, 2, 1, 3 >>

\* the general thick case; p1 and p2 are read after they were stored back
ThickLine(t1, t2, width, cosine, sine, mid, color, useBatch) ==
    LET q1 == Corner(t1, FMul(Half, width), cosine, sine, mid)
        q2 == Corner(t1, 0 - FMul(Half, width), cosine, sine, mid)
        q3 == Corner(t2, 0 - FMul(Half, width), cosine, sine, mid)
        q4 == Corner(t2, FMul(Half, width), cosine, sine, mid)
    IN  IF ~useBatch
        THEN Unbatched(vertex_list_indexed(4, LineOrder, q1 \o q2 \o q3 \o q4,
                                           Times(color, 4)))
        ELSE batch_add_indexed(4, "GL_TRIANGLES", LineOrder, q1 \o q2 \o q3 \o q4,
                               Times(color, 4))

\* whether width takes the thin branch
IsThin(width) == width <= One

\* the vertical test made on the ordinates
IsVerticalByY(p1, p2) == p2[2] = p1[2]

\* the test of the vertical branch
IsVertical(p1, p2) == p2[1] = p1[1]

\* the test of the horizontal branch
IsHorizontal(p1, p2) == p2[2] = p1[2]

\* no slope was computed by the call
NoSlope == << >>

\* the value returned, the mode given to the batch, the endpoints'
\* coordinates when the call ends, and the slope if the call computed one;
\* the division raises ZeroDivisionError on a zero divisor
generateLine(p1, p1kind, p2, p2kind, color, width, useBatch) ==
    IF IsThin(width)
    THEN LET r == IF ~useBatch
                  THEN Unbatched(vertex_list(2, ThinVertices(p1, p2), Times(color, 2)))
                  ELSE batch_add(2, "GL_LINES", ThinVertices(p1, p2), Times(color, 2))
         IN  [ret |-> r.ret, mode |-> r.mode, p1 |-> p1, p2 |-> p2, slope |-> NoSlope]
    ELSE IF IsVertical(p1, p2)
    THEN LET r == generateRectangle(VerticalOrigin(p1, p2, width), "list", width,
                                    Abs(p2[2] - p1[2]), color, TRUE, useBatch)
         IN  [ret |-> r.ret, mode |-> r.mode, p1 |-> p1, p2 |-> p2, slope |-> NoSlope]
    ELSE IF IsHorizontal(p1, p2)
    THEN LET r == generateRectangle(HorizontalOrigin(p1, p2, width), "list",
                                    Abs(p2[1] - p1[1]), width, color, TRUE, useBatch)
         IN  [ret |-> r.ret, mode |-> r.mode, p1 |-> p1, p2 |-> p2, slope |-> NoSlope]
    ELSE IF p2[1] - p1[1] = 0
    THEN [ret |-> Raise("ZeroDivisionError"), mode |-> "none", p1 |-> p1, p2 |-> p2,
          slope |-> NoSlope]
    ELSE LET slope == LineSlope(p1, p2)
             cosine == LineCosine(slope)
             sine == LineSine(slope)
             mid == Midpoint(p1, p2)
             t1 == Translated(p1, mid)
             t2 == Translated(p2, mid)
         IN  IF ~CanAssign(p1kind)
             THEN [ret |-> Raise("TypeError"), mode |-> "none", p1 |-> p1, p2 |-> p2,
                   slope |-> << slope >>]
             ELSE IF ~CanAssign(p2kind)
             THEN [ret |-> Raise("TypeError"), mode |-> "none", p1 |-> t1, p2 |-> p2,
                   slope |-> << slope >>]
             ELSE LET r == ThickLine(t1, t2, width, cosine, sine, mid, color, useBatch)
                  IN  [ret |-> r.ret, mode |-> r.mode, p1 |-> t1, p2 |-> t2,
                       slope |-> << slope >>]

\* ---------------------------------------------------- generateCircle
\* the rotation matrix with the sign of one sine entry lost
RotateSignLost(v, cosine, sine) ==
    << FMul(v[1], cosine) + FMul(v[2], sine),
       FMul(v[1], sine) + FMul(v[2], cosine) >>

\* the current vertex multiplied by the rotation matrix
Rotate(v, cosine, sine) ==
    << FMul(v[1], cosine) - FMul(v[2], sine),
       FMul(v[1], sine) + FMul(v[2], cosine) >>

\* the loop over range(num_points): the vertices appended so far, and the
\* current vertex (about the origin)
RECURSIVE CircleLoop(_, _, _, _, _, _)
CircleLoop(vertices, currentVertex, left, center, cosine, sine) ==
    IF left <= 0 THEN vertices
    ELSE LET nextVertex == Rotate(currentVertex, cosine, sine)
         IN  CircleLoop(vertices \o << nextVertex[1] + center[1], nextVertex[2] + center[2] >>,
                        nextVertex, left - 1, center, cosine, sine)

\* the flat vertex list of the perimeter, the top of the circle first
CircleVertices(center, radius, num_points) ==
    CircleLoop(<< center[1], center[2] + radius >>, << 0, radius >>, num_points,
               center, CosTurn(num_points), SinTurn(num_points))

\* the index buffer with every perimeter index one too far
RECURSIVE FanOrderOneTooFar(_, _)
FanOrderOneTooFar(i, num_points) ==
    IF i > num_points THEN << >>
    ELSE << 0, i + 1, i + 2 >> \o FanOrderOneTooFar(i + 1, num_points)

\* the index buffer of a filled circle: 0, i, i+1 for i in 1 .. num_points
RECURSIVE FanOrder(_, _)
FanOrder(i, num_points) ==
    IF i > num_points THEN << >>
    ELSE << 0, i, i + 1 >> \o FanOrder(i + 1, num_points)

generateCircle(center, ckind, radius, num_points, color, fill, useBatch) ==
    IF num_points = 0
    THEN Unbatched(Raise("ZeroDivisionError"))
    ELSE LET vertices == CircleVertices(center, radius, num_points)
         IN  IF fill
             THEN IF ~CanConcat(ckind, "list")
                  THEN Unbatched(Raise("TypeError"))
                  ELSE IF ~useBatch
                       THEN Unbatched(vertex_list_indexed(num_points + 2,
                                                          FanOrder(1, num_points),
                                                          center \o vertices,
                                                          Times(color, num_points + 2)))
                       ELSE batch_add_indexed(num_points + 2, "GL_TRIANGLES",
                                              FanOrder(1, num_points), center \o vertices,
                                              Times(color, num_points + 2))
             ELSE IF ~useBatch
                  THEN Unbatched(vertex_list(num_points + 1, vertices,
                                             Times(color, num_points + 1)))
                  ELSE batch_add(num_points + 1, "GL_LINE_STRIP", vertices,
                                 Times(color, num_points + 1))
\* ------------------------------------------------------- the caller
\* shape    which function the caller uses: "circle", "rectangle", "line"
\* args     the arguments as the caller built them, before any call
\* p1, p2   the coordinates now held by the two endpoint objects the
\*          caller passes to generateLine
\* results  what each call so far returned, whether it was given the batch,
\*          and the coordinates p1 and p2 held when it was made
\* batch    the caller's batch: the vertex lists added to it, with their modes
VARIABLES shape, args, p1, p2, results, batch

\* The random walk (src/test4.py) keeps its state in module globals.
\* step           number of lines drawn so far
\* bad_direction  the direction the next step must not take, None at first
\* currentVertex  the vertex the walk stands on
\* walk           the batch of the walk: per line its two vertices and colours
\* lastLine       the line of walk added last (its position in walk), 0 while
\*                there is none
\* ticks          how many times the clock has called walkStep
\* draw           the locals direction and length of getNextVertex's loop once
\*                a draw was thrown away, empty while no call is retrying
VARIABLES step, bad_direction, currentVertex, walk, lastLine, ticks, draw

walkVars == << step, bad_direction, currentVertex, walk, lastLine, ticks, draw >>

\* The grid demo (src/test6.py) keeps one User on one Grid.
\* user   the User object: row, col, center, radius, color and circle
\* user0  the User as its constructor left it
\* key    the symbol of the last key press, "none" before the first
VARIABLES user, user0, key

gridVars == << user, user0, key >>

vars == << shape, args, p1, p2, results, batch,
           step, bad_direction, currentVertex, walk, lastLine, ticks, draw,
           user, user0, key >>

\* no draw of getNextVertex is pending
NoDraw == << >>

\* Python's None where a direction 0 .. 3 is expected: equal to none of them
None == 0 - 1

\* no User was constructed
NoUser ==
    [row |-> 0, col |-> 0, center |-> << 0, 0 >>, radius |-> 0,
     color |-> << 255, 255, 255 >>,
     circle |-> [status |-> "none", count |-> 0, indexed |-> FALSE, indices |-> << >>,
                 vertices |-> << >>, colors |-> << >>]]

\* the grid demo's globals while no grid is shown
NoGrid ==
    /\ user = NoUser
    /\ user0 = NoUser
    /\ key = "none"

\* the walk's globals while no walk is running
NoWalk ==
    /\ step = 0
    /\ bad_direction = None
    /\ currentVertex = << 0, 0 >>
    /\ walk = << >>
    /\ lastLine = 0
    /\ ticks = 0
    /\ draw = NoDraw

Coords == { c * Scale : c \in 0 .. MaxCoord }
Points == { << x, y >> : x \in Coords, y \in Coords }
Sides == { k * Half : k \in 0 .. MaxHalves }
Thicknesses == { k * Half : k \in 1 .. MaxHalves }
Radii == { r * Scale : r \in 1 .. MaxRadius }
NumPoints == 0 .. MaxPoints
White == << 255, 255, 255 >>
Colors == { White, << 255, 0, 0 >> }
Origin == << 0, 0 >>

\* the arguments a scenario does not use
NoArgs ==
    [p1 |-> Origin, p1kind |-> "list", p2 |-> Origin, p2kind |-> "list", width |-> One,
     center |-> Origin, ckind |-> "list", radius |-> One, num_points |-> 3,
     origin |-> Origin, okind |-> "list", w |-> 0, h |-> 0,
     color |-> White, fill |-> FALSE]

InitLine ==
    /\ shape = "line"
    /\ \E a \in Points, b \in Points, ak \in Kinds, bk \in Kinds,
          t \in Thicknesses, c \in Colors :
          args = [NoArgs EXCEPT !.p1 = a, !.p1kind = ak, !.p2 = b, !.p2kind = bk,
                                !.width = t, !.color = c]
    /\ p1 = args.p1
    /\ p2 = args.p2

InitRectangle ==
    /\ shape = "rectangle"
    /\ \E o \in Points, k \in Kinds, w \in Sides, h \in Sides, c \in Colors,
          f \in BOOLEAN :
          args = [NoArgs EXCEPT !.origin = o, !.okind = k, !.w = w, !.h = h,
                                !.color = c, !.fill = f]
    /\ p1 = Origin
    /\ p2 = Origin

InitCircle ==
    /\ shape = "circle"
    /\ \E o \in Points, k \in Kinds, r \in Radii, n \in NumPoints, c \in Colors,
          f \in BOOLEAN :
          args = [NoArgs EXCEPT !.center = o, !.ckind = k, !.radius = r,
                                !.num_points = n, !.color = c, !.fill = f]
    /\ p1 = Origin
    /\ p2 = Origin

Init ==
    /\ InitLine \/ InitRectangle \/ InitCircle
    /\ results = << >>
    /\ batch = << >>
    /\ NoWalk
    /\ NoGrid

\* the call returns r.ret; with a batch, the vertex list is also in the batch;
\* slope is the slope a generateLine call computed, if any
Returned(r, useBatch, slope) ==
    /\ results' = Append(results, [ret |-> r.ret, batched |-> useBatch,
                                   p1 |-> p1, p2 |-> p2, slope |-> slope])
    /\ batch' = IF useBatch /\ r.ret.status = "ok"
                THEN Append(batch, [mode |-> r.mode, vlist |-> r.ret])
                ELSE batch

CallGenerateCircle(useBatch) ==
    /\ shape = "circle"
    /\ Len(results) < MaxCalls
    /\ Returned(generateCircle(args.center, args.ckind, args.radius, args.num_points,
                               args.color, args.fill, useBatch), useBatch, NoSlope)
    /\ UNCHANGED << shape, args, p1, p2 >>
    /\ UNCHANGED walkVars
    /\ UNCHANGED gridVars

CallGenerateRectangle(useBatch) ==
    /\ shape = "rectangle"
    /\ Len(results) < MaxCalls
    /\ Returned(generateRectangle(args.origin, args.okind, args.w, args.h,
                                  args.color, args.fill, useBatch), useBatch, NoSlope)
    /\ UNCHANGED << shape, args, p1, p2 >>
    /\ UNCHANGED walkVars
    /\ UNCHANGED gridVars

CallGenerateLine(useBatch) ==
    /\ shape = "line"
    /\ Len(results) < MaxCalls
    /\ LET r == generateLine(p1, args.p1kind, p2, args.p2kind, args.color,
                             args.width, useBatch)
       IN  /\ Returned(r, useBatch, r.slope)
           /\ p1' = r.p1
           /\ p2' = r.p2
    /\ UNCHANGED << shape, args >>
    /\ UNCHANGED walkVars
    /\ UNCHANGED gridVars

Next ==
    \E useBatch \in BOOLEAN :
        \/ CallGenerateCircle(useBatch)
        \/ CallGenerateRectangle(useBatch)
        \/ CallGenerateLine(useBatch)

Spec == Init /\ [][Next]_vars

\* ======================================================= random walk
\* src/test4.py: a walk along the axes inside a bounding box, one line per
\* clock tick.  Coordinates are pixels; the random draws range over the
\* small sets below.

\* maximum number of lines drawn (1024 in the source; small here so that the
\* walk gets there)
MAX_STEPS == 3
WINDOW_WIDTH == 960
WINDOW_HEIGHT == 540
MIN_WALK_LENGTH == 30
MAX_WALK_LENGTH == 150
WALK_COLOR == << 255, 0, 0 >>
STEP_COLOR == << 0, 0, 255 >>

\* the clock calls walkStep at most this many times
MaxTicks == 4

\* left, bottom, right and top side of the bounding box:
\* 0.1 and 0.9 of the window's width and height
bounds ==
    << WINDOW_WIDTH \div 10, WINDOW_HEIGHT \div 10,
       (9 * WINDOW_WIDTH) \div 10, (9 * WINDOW_HEIGHT) \div 10 >>

\* both start coordinates are drawn from uniform(0.15 * WINDOW_WIDTH,
\* 0.75 * WINDOW_HEIGHT); the two ends of that range stand for it
StartLow == (15 * WINDOW_WIDTH) \div 100
StartHigh == (75 * WINDOW_HEIGHT) \div 100
Starts == { StartLow, StartHigh }

\* floor(random() * 4): left, down, right, up
Directions == 0 .. 3

\* uniform(MIN_WALK_LENGTH, MAX_WALK_LENGTH): the two ends of the range and
\* the two lengths that lead from a start coordinate exactly onto a side of
\* the box
Lengths ==
    { MIN_WALK_LENGTH, StartLow - bounds[1], bounds[4] - StartHigh, MAX_WALK_LENGTH }

\* the list of lambdas add: directions 0 and 1 subtract, 2 and 3 add
add(direction, x, l) == IF direction < 2 THEN x - l ELSE x + l

newCoordinate(vertex, direction, length) ==
    add(direction, vertex[(direction % 2) + 1], length)

\* the left and bottom sides taken as part of the box
inBounds1OnSide(direction, coordinate) ==
    direction \div 2 = 0 /\ coordinate >= bounds[direction + 1]

inBounds1(direction, coordinate) ==
    direction \div 2 = 0 /\ coordinate > bounds[direction + 1]

inBounds2(direction, coordinate) ==
    direction \div 2 = 1 /\ coordinate < bounds[direction + 1]

\* the test on bad_direction turned round: only the way back is taken
AcceptedOnlyBack(vertex, bad, direction, length) ==
    /\ direction = bad
    /\ \/ inBounds1(direction, newCoordinate(vertex, direction, length))
       \/ inBounds2(direction, newCoordinate(vertex, direction, length))

\* the draw ends the loop of getNextVertex; any other draw is thrown away
\* and changes nothing
Accepted(vertex, bad, direction, length) ==
    /\ ~(direction = bad)
    /\ \/ inBounds1(direction, newCoordinate(vertex, direction, length))
       \/ inBounds2(direction, newCoordinate(vertex, direction, length))

\* a quarter turn taken for the opposite direction
QuarterTurn(direction) == (direction + 1) % 4

\* the direction opposite to the one just taken
Opposite(direction) == (direction + 2) % 4

\* the coordinate stored on the other axis
nextVertexOtherAxis(vertex, direction, coordinate) ==
    [vertex EXCEPT ![((direction + 1) % 2) + 1] = coordinate]

\* nextVertex: a copy of the current vertex with the coordinate of the
\* direction's axis replaced
nextVertex(vertex, direction, coordinate) ==
    [vertex EXCEPT ![(direction % 2) + 1] = coordinate]

\* what getNextVertex returns when the draw (direction, length) is accepted
getNextVertex(vertex, direction, length) ==
    nextVertex(vertex, direction, newCoordinate(vertex, direction, length))

\* walk.add(2, GL_LINES, None, currentVertex + nextVertex,
\*          WALK_COLOR + STEP_COLOR)
NewLine(from, to) == [vertices |-> from \o to, colors |-> WALK_COLOR \o STEP_COLOR]

\* the first line of the walk recoloured, whichever line was added last
RecolouredFirst(lines, last) ==
    [lines EXCEPT ![1].colors = Times(WALK_COLOR, 2)]

\* lastLine.colors = WALK_COLOR * 2
Recoloured(lines, last) ==
    [lines EXCEPT ![last].colors = Times(WALK_COLOR, 2)]

\* the cap taken as passed only beyond MAX_STEPS
AtMaxStepsLate(s) == s > MAX_STEPS

\* walkStep's test for the cap
AtMaxSteps(s) == s = MAX_STEPS

\* the module's globals once the start vertex is drawn (lines 17-148)
InitWalk ==
    /\ shape = "walk"
    /\ args = NoArgs
    /\ p1 = Origin
    /\ p2 = Origin
    /\ results = << >>
    /\ batch = << >>
    /\ step = 0
    /\ bad_direction = None
    /\ currentVertex \in { << x, y >> : x \in Starts, y \in Starts }
    /\ walk = << >>
    /\ lastLine = 0
    /\ ticks = 0
    /\ draw = NoDraw
    /\ NoGrid

\* lines 152-164: the first line of the walk, before the clock is started
FirstLine ==
    /\ shape = "walk"
    /\ step = 0
    /\ \E direction \in Directions, length \in Lengths :
          /\ Accepted(currentVertex, bad_direction, direction, length)
          /\ LET next == getNextVertex(currentVertex, direction, length)
             IN  /\ bad_direction' = Opposite(direction)
                 /\ walk' = Append(walk, NewLine(currentVertex, next))
                 /\ lastLine' = Len(walk) + 1
                 /\ currentVertex' = next
                 /\ step' = step + 1
    /\ draw' = NoDraw
    /\ UNCHANGED << shape, args, p1, p2, results, batch, ticks >>
    /\ UNCHANGED gridVars

\* one call of walkStep by the clock, scheduled once the first line is there
walkStep ==
    /\ shape = "walk"
    /\ step > 0
    /\ ticks < MaxTicks
    /\ ticks' = ticks + 1
    /\ draw' = NoDraw
    /\ IF AtMaxSteps(step)
       THEN UNCHANGED << step, bad_direction, currentVertex, walk, lastLine >>
       ELSE \E direction \in Directions, length \in Lengths :
               /\ Accepted(currentVertex, bad_direction, direction, length)
               /\ LET next == getNextVertex(currentVertex, direction, length)
                  IN  /\ bad_direction' = Opposite(direction)
                      /\ walk' = Append(Recoloured(walk, lastLine),
                                        NewLine(currentVertex, next))
                      /\ lastLine' = Len(walk) + 1
                      /\ currentVertex' = next
                      /\ step' = step + 1
    /\ UNCHANGED << shape, args, p1, p2, results, batch >>
    /\ UNCHANGED gridVars

NextWalk == FirstLine \/ walkStep

SpecWalk == InitWalk /\ [][NextWalk]_vars

\* one turn of getNextVertex's loop whose draw is thrown away: only the
\* locals change, and the loop draws again
RejectedDraw ==
    /\ shape = "walk"
    /\ step = 0 \/ (ticks < MaxTicks /\ ~AtMaxSteps(step))
    /\ \E direction \in Directions, length \in Lengths :
          /\ ~Accepted(currentVertex, bad_direction, direction, length)
          /\ draw' = << direction, length >>
    /\ UNCHANGED << shape, args, p1, p2, results, batch,
                    step, bad_direction, currentVertex, walk, lastLine, ticks >>
    /\ UNCHANGED gridVars

NextWalkDraws == FirstLine \/ walkStep \/ RejectedDraw

\* The draws are independent and an accepted one has positive probability,
\* so a loop that can end does end; the clock keeps calling walkStep.
SpecWalkFair ==
    /\ InitWalk
    /\ [][NextWalkDraws]_vars
    /\ WF_vars(FirstLine)
    /\ WF_vars(walkStep)

\* ========================================================= grid demo
\* src/test6.py: a user's circle moved from cell to cell of a grid with the
\* arrow keys.  Lengths are fixed-point as in the tessellator.
GRID_ROWS == 10
GRID_COLS == 10
CIRCLE_DRAW_POINTS == 30

\* Grid([0.05 * WINDOW_WIDTH, 0.05 * WINDOW_HEIGHT], 0.45 * WINDOW_WIDTH,
\*      0.85 * WINDOW_HEIGHT, GRID_ROWS, GRID_COLS, ...)
grid ==
    [origin |-> << (5 * WINDOW_WIDTH * Scale) \div 100,
                   (5 * WINDOW_HEIGHT * Scale) \div 100 >>,
     width |-> (45 * WINDOW_WIDTH * Scale) \div 100,
     height |-> (85 * WINDOW_HEIGHT * Scale) \div 100,
     rows |-> GRID_ROWS,
     cols |-> GRID_COLS]

\* Grid.getCellCenter
getCellCenter(g, row, col) ==
    << g.origin[1] + FMul(FDiv(g.width, g.cols * Scale), col * Scale + Half),
       g.origin[2] + FMul(FDiv(g.height, g.rows * Scale), row * Scale + Half) >>

min(a, b) == IF a <= b THEN a ELSE b

\* User.__init__
User(g, row, col, color) ==
    LET center == getCellCenter(g, row, col)
        radius == FMul(Scale \div 4,
                       min(FDiv(g.width, g.cols * Scale), FDiv(g.height, g.rows * Scale)))
    IN  [row |-> row, col |-> col, center |-> center, radius |-> radius,
         color |-> color,
         circle |-> generateCircle(center, "list", radius, CIRCLE_DRAW_POINTS,
                                   color, TRUE, FALSE).ret]

\* every coordinate of the circle moved by deltaX, the y coordinates too
translatedAlongX(vertices, deltaX, deltaY) ==
    [i \in 1 .. Len(vertices) |-> vertices[i] + deltaX]

\* the loop of moveTo: x coordinates (even Python indices) move by deltaX,
\* y coordinates by deltaY
translatedVertices(vertices, deltaX, deltaY) ==
    [i \in 1 .. Len(vertices) |->
        IF (i - 1) % 2 = 0 THEN vertices[i] + deltaX ELSE vertices[i] + deltaY]

\* User.moveTo
moveTo(u, next_row, next_col) ==
    LET nextCenter == getCellCenter(grid, next_row, next_col)
        deltaX == nextCenter[1] - u.center[1]
        deltaY == nextCenter[2] - u.center[2]
    IN  [u EXCEPT !.circle.vertices = translatedVertices(u.circle.vertices, deltaX, deltaY),
                  !.center = nextCenter,
                  !.row = next_row,
                  !.col = next_col]

\* pyglet.window.key symbols: the four arrows and one other key
Keys == { "LEFT", "RIGHT", "DOWN", "UP", "SPACE" }

\* the test for RIGHT with the last column taken as open
rightOpenOnEdge(u) == u.col < grid.cols

\* the tests of on_key_press: the user is not on that edge of the grid
leftOpen(u) == u.col > 0

rightOpen(u) == u.col < grid.cols - 1

downOpen(u) == u.row > 0

upOpen(u) == u.row < grid.rows - 1

\* UP and DOWN exchanged
pressedUpsideDown(u, symbol) ==
    IF symbol = "LEFT" THEN IF leftOpen(u) THEN moveTo(u, u.row, u.col - 1) ELSE u
    ELSE IF symbol = "RIGHT" THEN IF rightOpen(u) THEN moveTo(u, u.row, u.col + 1) ELSE u
    ELSE IF symbol = "UP" THEN IF downOpen(u) THEN moveTo(u, u.row - 1, u.col) ELSE u
    ELSE IF symbol = "DOWN" THEN IF upOpen(u) THEN moveTo(u, u.row + 1, u.col) ELSE u
    ELSE u

\* the user after on_key_press(symbol, modifiers)
pressed(u, symbol) ==
    IF symbol = "LEFT" THEN IF leftOpen(u) THEN moveTo(u, u.row, u.col - 1) ELSE u
    ELSE IF symbol = "RIGHT" THEN IF rightOpen(u) THEN moveTo(u, u.row, u.col + 1) ELSE u
    ELSE IF symbol = "DOWN" THEN IF downOpen(u) THEN moveTo(u, u.row - 1, u.col) ELSE u
    ELSE IF symbol = "UP" THEN IF upOpen(u) THEN moveTo(u, u.row + 1, u.col) ELSE u
    ELSE u

\* the globals once the user is constructed in a random cell, in a random
\* colour (lines 207-230)
InitGrid ==
    /\ shape = "grid"
    /\ args = NoArgs
    /\ p1 = Origin
    /\ p2 = Origin
    /\ results = << >>
    /\ batch = << >>
    /\ NoWalk
    /\ \E start_row \in 0 .. GRID_ROWS - 1, start_col \in 0 .. GRID_COLS - 1,
          user_color \in Colors :
          user = User(grid, start_row, start_col, user_color)
    /\ user0 = user
    /\ key = "none"

on_key_press ==
    /\ shape = "grid"
    /\ \E symbol \in Keys :
          /\ user' = pressed(user, symbol)
          /\ key' = symbol
    /\ UNCHANGED << shape, args, p1, p2, results, batch, user0 >>
    /\ UNCHANGED walkVars

NextGrid == on_key_press

SpecGrid == InitGrid /\ [][NextGrid]_vars
\* ================================================================ claims
\* vertex k (from 0) of a vertex list
Vertex(m, k) == << m.vertices[2 * k + 1], m.vertices[2 * k + 2] >>

\* twice the signed area of the triangle a, b, c (positive: counter-clockwise)
Cross(a, b, c) == (b[1] - a[1]) * (c[2] - a[2]) - (b[2] - a[2]) * (c[1] - a[1])

Sign(a) == IF a > 0 THEN 1 ELSE IF a < 0 THEN 0 - 1 ELSE 0

\* length of the segment a b
Distance(a, b) ==
    ISqrt((b[1] - a[1]) * (b[1] - a[1]) + (b[2] - a[2]) * (b[2] - a[2]))

\* perpendicular distance of q from the straight line through a and b
PerpDistance(q, a, b) == RoundDiv(Abs(Cross(a, b, q)), Distance(a, b))

\* what rounding alone may change: a hundredth of a unit
Tol == Scale \div 100

Near(a, b) == Abs(a - b) <= Tol

Calls == 1 .. Len(results)

\* call i was a thick line neither vertical nor horizontal
GeneralThick(i) ==
    /\ shape = "line"
    /\ ~IsThin(args.width)
    /\ results[i].p1[1] # results[i].p2[1]
    /\ results[i].p1[2] # results[i].p2[2]

\* C1: for a thick line that is neither vertical nor horizontal, each of the
\* four corners returned lies at perpendicular distance thickness/2 from the
\* straight line through the p1 and p2 the call was given, q1 and q4 on one
\* side of that line and q2 and q3 on the other.
C1_CornersHalfThicknessFromLine ==
    \A i \in Calls :
        (GeneralThick(i) /\ results[i].ret.status = "ok") =>
            LET e == results[i]
                q(k) == Vertex(e.ret, k - 1)
                side(k) == Sign(Cross(e.p1, e.p2, q(k)))
            IN  /\ \A k \in 1 .. 4 :
                       Near(PerpDistance(q(k), e.p1, e.p2), args.width \div 2)
                /\ side(1) # 0
                /\ side(4) = side(1)
                /\ side(2) = 0 - side(1)
                /\ side(3) = 0 - side(1)

\* C2: for a thick line that is neither vertical nor horizontal, the midpoint
\* of q1, q2 is the p1 the call was given, the midpoint of q3, q4 is the p2 it
\* was given, and the quad's long axis has the direction of p2 - p1.
C2_CornersProjectOntoEndpoints ==
    \A i \in Calls :
        (GeneralThick(i) /\ results[i].ret.status = "ok") =>
            LET e == results[i]
                q(k) == Vertex(e.ret, k - 1)
                \* twice the midpoints of the two short sides
                m1 == << q(1)[1] + q(2)[1], q(1)[2] + q(2)[2] >>
                m2 == << q(3)[1] + q(4)[1], q(3)[2] + q(4)[2] >>
                d == << e.p2[1] - e.p1[1], e.p2[2] - e.p1[2] >>
                axis == << m2[1] - m1[1], m2[2] - m1[2] >>
            IN  /\ Abs(m1[1] - 2 * e.p1[1]) <= 2 * Tol
                /\ Abs(m1[2] - 2 * e.p1[2]) <= 2 * Tol
                /\ Abs(m2[1] - 2 * e.p2[1]) <= 2 * Tol
                /\ Abs(m2[2] - 2 * e.p2[2]) <= 2 * Tol
                /\ RoundDiv(Abs(axis[1] * d[2] - axis[2] * d[1]),
                            2 * Distance(e.p1, e.p2)) <= Tol
                /\ axis[1] * d[1] + axis[2] * d[2] > 0

\* C3: in every branch the caller's p1 and p2 hold the same coordinates after
\* a generateLine call as before it, and two successive calls with the same
\* point objects, thickness and colour return identical meshes.
C3_LineLeavesEndpointsAlone ==
    shape = "line" =>
        /\ p1 = args.p1
        /\ p2 = args.p2
        /\ \A i \in Calls : \A j \in Calls : results[i].ret = results[j].ret
Min(a, b) == IF a <= b THEN a ELSE b
Max(a, b) == IF a >= b THEN a ELSE b

\* the filled rectangle with corners (x0, y0) and (x1, y1), in colour c
FilledBox(x0, y0, x1, y1, c) ==
    [status |-> "ok", count |-> 4, indexed |-> TRUE,
     indices |-> << 0, 1, 2, 2, 3, 0 >>,
     vertices |-> << x0, y0, x1, y0, x1, y1, x0, y1 >>,
     colors |-> c \o c \o c \o c]

\* call i was a thick horizontal line of positive length
HorizontalThick(i) ==
    /\ shape = "line"
    /\ ~IsThin(args.width)
    /\ results[i].p1[2] = results[i].p2[2]
    /\ results[i].p1[1] # results[i].p2[1]

\* call i was a thick vertical line
VerticalThick(i) ==
    /\ shape = "line"
    /\ ~IsThin(args.width)
    /\ results[i].p1[1] = results[i].p2[1]

\* C4: a thick horizontal line of positive length returns the filled
\* rectangle of generateRectangle(origin = (min x, y - t/2), width = |dx|,
\* height = t), a thick vertical line the one of origin (x - t/2, min y),
\* width t, height |dy|; the rectangle is centred on the line and is the
\* same for the two orders of the endpoints.
C4_AxisAlignedLineIsCentredRectangle ==
    \A i \in Calls :
        LET e == results[i]
            t == args.width
            h == t \div 2
            swapped == generateLine(e.p2, args.p2kind, e.p1, args.p1kind,
                                    args.color, t, e.batched)
        IN  /\ HorizontalThick(i) =>
                /\ 2 * h = t
                /\ e.ret = FilledBox(Min(e.p1[1], e.p2[1]), e.p1[2] - h,
                                     Max(e.p1[1], e.p2[1]), e.p1[2] + h, args.color)
                /\ e.ret = generateRectangle(<< Min(e.p1[1], e.p2[1]), e.p1[2] - h >>,
                                             "tuple", Abs(e.p2[1] - e.p1[1]), t,
                                             args.color, TRUE, e.batched).ret
                /\ e.ret = swapped.ret
            /\ VerticalThick(i) =>
                /\ 2 * h = t
                /\ e.ret = FilledBox(e.p1[1] - h, Min(e.p1[2], e.p2[2]),
                                     e.p1[1] + h, Max(e.p1[2], e.p2[2]), args.color)
                /\ e.ret = generateRectangle(<< e.p1[1] - h, Min(e.p1[2], e.p2[2]) >>,
                                             "tuple", t, Abs(e.p2[2] - e.p1[2]),
                                             args.color, TRUE, e.batched).ret
                /\ e.ret = swapped.ret

\* a thick horizontal line was drawn from endpoints given as tuples, the
\* right one first
C4_Witness ==
    \E i \in Calls :
        /\ HorizontalThick(i)
        /\ results[i].p1[1] > results[i].p2[1]
        /\ args.p1kind = "tuple"
        /\ results[i].ret.status = "ok"

\* call i asked for a circle with at least three points
ValidCircle(i) == shape = "circle" /\ args.num_points >= 3

\* C5: for every num_points >= 3 the outline circle has exactly
\* num_points + 1 vertices, vertex 0 is (center.x, center.y + radius), and
\* the last vertex (index num_points) equals vertex 0.
C5_OutlineCircleCloses ==
    \A i \in Calls :
        (ValidCircle(i) /\ ~args.fill) =>
            LET m == results[i].ret
                n == args.num_points
            IN  /\ m.status = "ok"
                /\ m.count = n + 1
                /\ Len(m.vertices) = 2 * (n + 1)
                /\ Vertex(m, 0) = << args.center[1], args.center[2] + args.radius >>
                /\ Vertex(m, n) = Vertex(m, 0)

\* C6: every filled circle with num_points >= 3 has num_points + 2 vertices
\* with the centre as vertex 0, and its index buffer is exactly the
\* num_points triangles (0, i, i+1), i = 1 .. num_points: every triangle
\* references index 0, consecutive triangles share a perimeter vertex, and
\* every index is less than num_points + 2.
C6_FilledCircleIsFan ==
    \A i \in Calls :
        (ValidCircle(i) /\ args.fill) =>
            LET m == results[i].ret
                n == args.num_points
            IN  /\ m.status = "ok"
                /\ m.count = n + 2
                /\ Len(m.vertices) = 2 * (n + 2)
                /\ Vertex(m, 0) = args.center
                /\ m.indexed
                /\ Len(m.indices) = 3 * n
                /\ \A k \in 1 .. n :
                       /\ m.indices[3 * k - 2] = 0
                       /\ m.indices[3 * k - 1] = k
                       /\ m.indices[3 * k] = k + 1
                /\ \A k \in 1 .. n - 1 : m.indices[3 * k] = m.indices[3 * k + 2]
                /\ \A k \in 1 .. 3 * n : m.indices[k] < n + 2

\* C7: for every origin (a coordinate pair, documented as a tuple), width and
\* height, the outline rectangle has exactly the 5 vertices (ox,oy),
\* (ox+w,oy), (ox+w,oy+h), (ox,oy+h), (ox,oy).
C7_OutlineRectangleFiveVertices ==
    \A i \in Calls :
        (shape = "rectangle" /\ ~args.fill) =>
            LET m == results[i].ret
                ox == args.origin[1]
                oy == args.origin[2]
            IN  /\ m.status = "ok"
                /\ m.count = 5
                /\ ~m.indexed
                /\ m.vertices = << ox, oy, ox + args.w, oy, ox + args.w, oy + args.h,
                                   ox, oy + args.h, ox, oy >>

\* triangle k (from 1) of an indexed vertex list, as three points
Triangle(m, k) ==
    << Vertex(m, m.indices[3 * k - 2]), Vertex(m, m.indices[3 * k - 1]),
       Vertex(m, m.indices[3 * k]) >>

\* twice the signed shoelace area of a triangle
Shoelace2(t) == Cross(t[1], t[2], t[3])

C9_ThinTwoVerticesThickQuad ==
    \A i \in Calls :
        shape = "line" =>
            LET e == results[i]
                m == e.ret
            IN  /\ m.status = "ok"
                /\ args.width <= One =>
                       /\ m.count = 2
                       /\ ~m.indexed
                       /\ m.indices = << >>
                       /\ m.vertices = e.p1 \o e.p2
                /\ args.width > One =>
                       /\ m.count = 4
                       /\ Len(m.vertices) = 8
                       /\ m.indexed
                       /\ Len(m.indices) = 6

\* the Mesh invariant of one vertex list in the requested colour c
MeshInvariant(m, c) ==
    /\ Len(m.vertices) = 2 * m.count
    /\ Len(m.colors) = 3 * m.count
    /\ \A k \in 0 .. m.count - 1 :
           << m.colors[3 * k + 1], m.colors[3 * k + 2], m.colors[3 * k + 3] >> = c
    /\ m.indexed => \A k \in 1 .. Len(m.indices) :
                        m.indices[k] >= 0 /\ m.indices[k] < m.count
    /\ ~m.indexed => m.indices = << >>

\* C10: every mesh returned by generateCircle, generateRectangle and
\* generateLine, in every mode and with or without a batch, and every vertex
\* list added to the batch, declares as many vertices as coordinate pairs it
\* holds, has one colour per vertex, each the requested colour, and has every
\* index below the vertex count.
C10_MeshInvariant ==
    /\ \A i \in Calls :
           results[i].ret.status = "ok" => MeshInvariant(results[i].ret, args.color)
    /\ \A i \in 1 .. Len(batch) : MeshInvariant(batch[i].vlist, args.color)

\* a filled circle in a colour other than the default was added to the batch
C10_Witness ==
    \E i \in Calls :
        /\ shape = "circle"
        /\ args.fill
        /\ args.num_points >= 3
        /\ args.color # White
        /\ results[i].batched
        /\ results[i].ret.status = "ok"
        /\ Len(batch) > 0

\* C11: generateCircle called with num_points below 3 fails: it never
\* returns a mesh, degenerate or otherwise.
C11_FewPointsRejected ==
    \A i \in Calls :
        (shape = "circle" /\ args.num_points < 3) => results[i].ret.status # "ok"

\* call i was given two endpoints with the same coordinates
ZeroLength(i) == shape = "line" /\ results[i].p1 = results[i].p2

\* C12: generateLine called with p1 = p2 either fails or returns a mesh made
\* for the case, for every thickness: it returns neither an ordinary 2-vertex
\* segment nor a 4-vertex quad.
C12_ZeroLengthLineRejected ==
    \A i \in Calls :
        ZeroLength(i) =>
            LET m == results[i].ret
            IN  \/ m.status # "ok"
                \/ (m.count # 2 /\ m.count # 4)

\* what rounding of the corners may change in twice the area of a quad of
\* sides l and w
AreaTol(l, w) == 2 * Tol * (l + w)

\* C13: for a thick line that is neither vertical nor horizontal the index
\* buffer is [0,1,3,2,1,3]: the triangles (q1,q2,q4) and (q3,q2,q4) share the
\* diagonal q2-q4, q1 and q3 lie strictly on opposite sides of it, and the
\* two triangle areas sum to the area of the quad q1 q2 q3 q4, which is
\* |p2 - p1| * thickness.
C13_QuadTriangulation ==
    \A i \in Calls :
        (GeneralThick(i) /\ results[i].ret.status = "ok") =>
            LET e == results[i]
                m == e.ret
                q(k) == Vertex(m, k - 1)
                twice == Abs(Shoelace2(Triangle(m, 1))) + Abs(Shoelace2(Triangle(m, 2)))
                quad == Abs(Cross(q(1), q(2), q(3)) + Cross(q(1), q(3), q(4)))
                l == Distance(e.p1, e.p2)
            IN  /\ m.indices = << 0, 1, 3, 2, 1, 3 >>
                /\ Triangle(m, 1) = << q(1), q(2), q(4) >>
                /\ Triangle(m, 2) = << q(3), q(2), q(4) >>
                /\ Sign(Cross(q(2), q(4), q(1))) # 0
                /\ Sign(Cross(q(2), q(4), q(3))) = 0 - Sign(Cross(q(2), q(4), q(1)))
                /\ twice = quad
                /\ Abs(quad - 2 * l * args.width) <= AreaTol(l, args.width)

\* cos and sin of k turns of 360/n degrees, in thousandths (row n, entry k + 1)
TurnCosTable ==
    << << 1000, 1000 >>,
       << 1000, -1000, 1000 >>,
       << 1000, -500, -500, 1000 >>,
       << 1000, 0, -1000, 0, 1000 >>,
       << 1000, 309, -809, -809, 309, 1000 >>,
       << 1000, 500, -500, -1000, -500, 500, 1000 >>,
       << 1000, 623, -223, -901, -901, -223, 623, 1000 >>,
       << 1000, 707, 0, -707, -1000, -707, 0, 707, 1000 >>,
       << 1000, 766, 174, -500, -940, -940, -500, 174, 766, 1000 >>,
       << 1000, 809, 309, -309, -809, -1000, -809, -309, 309, 809, 1000 >>,
       << 1000, 841, 415, -142, -655, -959, -959, -655, -142, 415, 841, 1000 >>,
       << 1000, 866, 500, 0, -500, -866, -1000, -866, -500, 0, 500, 866, 1000 >> >>
TurnSinTable ==
    << << 0, 0 >>,
       << 0, 0, 0 >>,
       << 0, 866, -866, 0 >>,
       << 0, 1000, 0, -1000, 0 >>,
       << 0, 951, 588, -588, -951, 0 >>,
       << 0, 866, 866, 0, -866, -866, 0 >>,
       << 0, 782, 975, 434, -434, -975, -782, 0 >>,
       << 0, 707, 1000, 707, 0, -707, -1000, -707, 0 >>,
       << 0, 643, 985, 866, 342, -342, -866, -985, -643, 0 >>,
       << 0, 588, 951, 951, 588, 0, -588, -951, -951, -588, 0 >>,
       << 0, 541, 910, 990, 756, 282, -282, -756, -990, -910, -541, 0 >>,
       << 0, 500, 866, 1000, 866, 500, 0, -500, -866, -1000, -866, -500, 0 >> >>

\* the start point (0, r) turned k times by 360/n degrees about the origin
Turned(r, k, n) == << 0 - FMul(r, TurnSinTable[n][k + 1]), FMul(r, TurnCosTable[n][k + 1]) >>

\* perimeter vertex k (from 0, the top) of the circle mesh m, about the origin
Perimeter(m, k, center) ==
    LET v == IF m.indexed THEN Vertex(m, k + 1) ELSE Vertex(m, k)
    IN  << v[1] - center[1], v[2] - center[2] >>

\* what rounding may add in one rotation step at radius r: a thousandth for
\* the two products, and a thousandth of r for the rounded cosine and sine
StepTol(r) == (One + r) \div Scale

\* C14 as worded: for every radius and num_points >= 3 every perimeter vertex
\* is exactly at distance radius from the centre (the squared norm stays
\* radius^2) and is exactly the start point turned k times by 360/num_points.
C14_RadiusPreservedExactly ==
    \A i \in Calls :
        (ValidCircle(i) /\ results[i].ret.status = "ok") =>
            \A k \in 0 .. args.num_points :
                LET v == Perimeter(results[i].ret, k, args.center)
                IN  /\ v[1] * v[1] + v[2] * v[2] = args.radius * args.radius
                    /\ v = Turned(args.radius, k, args.num_points)

\* C14: for every radius and num_points >= 3 every perimeter vertex is at
\* distance radius from the centre and is the start point (0, radius) turned
\* k times by 360/num_points, up to the rounding of k rotation steps.
C14_RadiusPreserved ==
    \A i \in Calls :
        (ValidCircle(i) /\ results[i].ret.status = "ok") =>
            \A k \in 0 .. args.num_points :
                LET v == Perimeter(results[i].ret, k, args.center)
                    w == Turned(args.radius, k, args.num_points)
                    tol == k * StepTol(args.radius)
                IN  /\ Abs(Distance(<< 0, 0 >>, v) - args.radius) <= tol
                    /\ Abs(v[1] - w[1]) <= tol
                    /\ Abs(v[2] - w[2]) <= tol

\* an outline and a filled circle of five or more points and radius above 1
\* were returned for a centre away from the origin
C14_Witness ==
    /\ shape = "circle"
    /\ args.num_points >= 5
    /\ args.radius > One
    /\ args.center # Origin
    /\ Len(results) > 0
    /\ results[1].ret.status = "ok"

\* what call i returns when it is made the other way: without the batch if it
\* was given one, with a batch if it was given none
OtherWay(i) ==
    LET e == results[i]
    IN  IF shape = "circle"
        THEN generateCircle(args.center, args.ckind, args.radius, args.num_points,
                            args.color, args.fill, ~e.batched).ret
        ELSE IF shape = "rectangle"
        THEN generateRectangle(args.origin, args.okind, args.w, args.h, args.color,
                               args.fill, ~e.batched).ret
        ELSE generateLine(e.p1, args.p1kind, e.p2, args.p2kind, args.color,
                          args.width, ~e.batched).ret

\* the mode claimed for the mesh of call i
ClaimedMode(i) ==
    IF results[i].ret.indexed THEN "GL_TRIANGLES"
    ELSE IF shape = "line" THEN "GL_LINES"
    ELSE "GL_LINE_STRIP"

\* the batch after the first n calls if every call given the batch appends
\* one entry to it and touches nothing else
RECURSIVE OnePerCall(_)
OnePerCall(n) ==
    IF n = 0 THEN << >>
    ELSE IF results[n].batched
         THEN Append(OnePerCall(n - 1),
                     [mode |-> ClaimedMode(n), vlist |-> results[n].ret])
         ELSE OnePerCall(n - 1)

\* C15: for every shape function and every input the geometry produced
\* (vertex count, coordinates, index buffer, colours) is the same with and
\* without a batch; with a batch, every call appends exactly one entry to it,
\* under GL_TRIANGLES for an indexed mesh, GL_LINES for a thin line and
\* GL_LINE_STRIP for an outline, and nothing else in the batch changes.
C15_BatchOnlyRecords ==
    /\ \A i \in Calls : results[i].ret = OtherWay(i)
    /\ batch = OnePerCall(Len(results))

\* ---------------------------------------------------- the random walk
\* start and end vertex of line k of the walk
LineStart(k) == << walk[k].vertices[1], walk[k].vertices[2] >>
LineEnd(k) == << walk[k].vertices[3], walk[k].vertices[4] >>

\* colour of the start and of the end vertex of line k
StartColor(k) == SubSeq(walk[k].colors, 1, 3)
EndColor(k) == SubSeq(walk[k].colors, 4, 6)

Lines == 1 .. Len(walk)

\* strictly inside the bounding box
Inside(v) ==
    /\ bounds[1] < v[1]
    /\ v[1] < bounds[3]
    /\ bounds[2] < v[2]
    /\ v[2] < bounds[4]

\* C16: in every reachable state every vertex of the walk, the random start
\* vertex and every vertex returned by getNextVertex, lies strictly inside
\* the bounding box: bounds[0] < x < bounds[2] and bounds[1] < y < bounds[3].
C16_WalkInsideBox ==
    shape = "walk" =>
        /\ Inside(currentVertex)
        /\ \A k \in Lines : Inside(LineStart(k)) /\ Inside(LineEnd(k))

\* the walk is complete and stands closer to the left side of the box than
\* the shortest step, after leaving a start from which one of the lengths
\* leads exactly onto that side
C16_Witness ==
    /\ shape = "walk"
    /\ step = MAX_STEPS
    /\ currentVertex[1] - bounds[1] < MIN_WALK_LENGTH
    /\ LineStart(1)[1] - bounds[1] \in Lengths

\* the direction line k was drawn in: left 0, down 1, right 2, up 3
DirectionOf(k) ==
    IF LineEnd(k)[1] < LineStart(k)[1] THEN 0
    ELSE IF LineEnd(k)[2] < LineStart(k)[2] THEN 1
    ELSE IF LineEnd(k)[1] > LineStart(k)[1] THEN 2
    ELSE 3

\* C17: no step goes back where the previous one came from: consecutive
\* accepted directions d, e satisfy e # (d + 2) mod 4; bad_direction is None
\* before the first step and afterwards the opposite of the direction
\* accepted last.
C17_NeverStraightBack ==
    shape = "walk" =>
        /\ \A k \in Lines :
               k + 1 \in Lines => DirectionOf(k + 1) # (DirectionOf(k) + 2) % 4
        /\ step = 0 => bad_direction = None
        /\ step > 0 => bad_direction = (DirectionOf(Len(walk)) + 2) % 4

\* three steps were accepted, the last one after a turn
C17_Witness ==
    /\ shape = "walk"
    /\ Len(walk) >= 3
    /\ DirectionOf(3) # DirectionOf(2)
    /\ DirectionOf(2) = DirectionOf(1)

\* C18: after any number of walkStep callbacks the walk batch holds step
\* lines and step <= MAX_STEPS; once step = MAX_STEPS a callback leaves step,
\* currentVertex, lastLine, every line's colours, bad_direction and the batch
\* as they were.
C18_StopsAtMaxSteps ==
    /\ [](shape = "walk" => (Len(walk) = step /\ step <= MAX_STEPS))
    /\ [][(shape = "walk" /\ step = MAX_STEPS) =>
              /\ step' = step
              /\ currentVertex' = currentVertex
              /\ lastLine' = lastLine
              /\ bad_direction' = bad_direction
              /\ walk' = walk]_vars

\* the clock has called walkStep again after the walk was complete
C18_Witness ==
    /\ shape = "walk"
    /\ step = MAX_STEPS
    /\ ticks > MAX_STEPS - 1

\* line k has a vertex in STEP_COLOR
CarriesStepColor(k) == StartColor(k) = STEP_COLOR \/ EndColor(k) = STEP_COLOR

\* C19: in every state from the first line on, exactly one line of the walk
\* carries STEP_COLOR: the line added last (lastLine), WALK_COLOR at its
\* start and STEP_COLOR at its end; every earlier line is WALK_COLOR at both
\* vertices.
C19_OnlyLastLineStepColor ==
    (shape = "walk" /\ step > 0) =>
        /\ lastLine = Len(walk)
        /\ Cardinality({ k \in Lines : CarriesStepColor(k) }) = 1
        /\ StartColor(lastLine) = WALK_COLOR
        /\ EndColor(lastLine) = STEP_COLOR
        /\ \A k \in 1 .. lastLine - 1 :
               StartColor(k) = WALK_COLOR /\ EndColor(k) = WALK_COLOR

\* three lines are drawn: two recoloured, one current
C19_Witness ==
    /\ shape = "walk"
    /\ Len(walk) = 3
    /\ lastLine = 3
    /\ ticks = 2

\* C20: the walk is a connected path along the axes: every line starts at
\* the end vertex of the line before it, the walk stands on the end of its
\* last line, and each line's end differs from its start in exactly one
\* coordinate, by a length from MIN_WALK_LENGTH to MAX_WALK_LENGTH.
C20_ConnectedAxisAlignedPath ==
    shape = "walk" =>
        /\ \A k \in Lines : k + 1 \in Lines => LineStart(k + 1) = LineEnd(k)
        /\ step > 0 => currentVertex = LineEnd(Len(walk))
        /\ \A k \in Lines :
               LET dx == Abs(LineEnd(k)[1] - LineStart(k)[1])
                   dy == Abs(LineEnd(k)[2] - LineStart(k)[2])
               IN  /\ (dx = 0) # (dy = 0)
                   /\ dx + dy >= MIN_WALK_LENGTH
                   /\ dx + dy <= MAX_WALK_LENGTH

\* a walk of three lines with a turn, one line of the longest and one of the
\* shortest length
C20_Witness ==
    /\ shape = "walk"
    /\ Len(walk) = 3
    /\ DirectionOf(2) % 2 # DirectionOf(1) % 2
    /\ \E k \in Lines :
           Abs(LineEnd(k)[1] - LineStart(k)[1]) = MAX_WALK_LENGTH
    /\ \E k \in Lines :
           Abs(LineEnd(k)[2] - LineStart(k)[2]) = MIN_WALK_LENGTH

\* getNextVertex called on this vertex with this bad_direction can end: some
\* direction and some length of the range are accepted
SomeDrawAccepted(vertex, bad) ==
    \E direction \in Directions, length \in MIN_WALK_LENGTH .. MAX_WALK_LENGTH :
        Accepted(vertex, bad, direction, length)

\* coordinates between two opposite sides of the box: next to each side, a
\* shortest step away from it, and half way
BetweenSides(low, high) ==
    { low + 1, low + MIN_WALK_LENGTH, low + MIN_WALK_LENGTH + 1, (low + high) \div 2,
      high - MIN_WALK_LENGTH - 1, high - MIN_WALK_LENGTH, high - 1 }

\* C21: from every vertex inside the box and every bad_direction some
\* direction other than bad_direction and some length from MIN_WALK_LENGTH to
\* MAX_WALK_LENGTH is accepted by getNextVertex; so, with draws that are fair
\* and a clock that keeps ticking, every call of getNextVertex ends and the
\* walk reaches step = MAX_STEPS (step only grows by calls that ended, so
\* reaching MAX_STEPS takes every call before it to have ended).
C21_WalkProgresses ==
    /\ \A x \in BetweenSides(bounds[1], bounds[3]),
          y \in BetweenSides(bounds[2], bounds[4]),
          bad \in Directions \cup { None } :
           SomeDrawAccepted(<< x, y >>, bad)
    /\ [](shape = "walk" => SomeDrawAccepted(currentVertex, bad_direction))
    /\ <>(step = MAX_STEPS)

\* a call of getNextVertex one step before the end of the walk has thrown a
\* draw away, standing too close to the left side of the box to go left
C21_Witness ==
    /\ shape = "walk"
    /\ step = MAX_STEPS - 1
    /\ draw # NoDraw
    /\ currentVertex[1] - bounds[1] < MIN_WALK_LENGTH

\* ------------------------------------------------------ the grid demo
\* C22: after any sequence of key presses, from any start cell, the user is
\* in the grid: 0 <= user.row <= grid.rows - 1 and 0 <= user.col <=
\* grid.cols - 1.
C22_UserStaysInGrid ==
    shape = "grid" =>
        /\ 0 <= user.row
        /\ user.row <= grid.rows - 1
        /\ 0 <= user.col
        /\ user.col <= grid.cols - 1

\* the user, started in the first column, stands in the last cell of the top
\* row after RIGHT was pressed
C22_Witness ==
    /\ shape = "grid"
    /\ key = "RIGHT"
    /\ user0.col = 0
    /\ user.col = grid.cols - 1
    /\ user.row = grid.rows - 1

\* the key just pressed left the user's row, col, center and circle as they
\* were
UserKept ==
    /\ user'.row = user.row
    /\ user'.col = user.col
    /\ user'.center = user.center
    /\ user'.circle.vertices = user.circle.vertices

\* C23: each arrow key moves the user by exactly one cell in its direction
\* and leaves the other index alone (LEFT col - 1, RIGHT col + 1, DOWN
\* row - 1, UP row + 1) when the target cell is in the grid; on the edge in
\* that direction, or for a key that is no arrow, row, col, center and the
\* circle's vertices stay as they are.
C23_ArrowKeyMovesOneCell ==
    [][shape = "grid" =>
          /\ (key' = "LEFT" /\ user.col - 1 >= 0) =>
                 user'.col = user.col - 1 /\ user'.row = user.row
          /\ (key' = "RIGHT" /\ user.col + 1 <= grid.cols - 1) =>
                 user'.col = user.col + 1 /\ user'.row = user.row
          /\ (key' = "DOWN" /\ user.row - 1 >= 0) =>
                 user'.row = user.row - 1 /\ user'.col = user.col
          /\ (key' = "UP" /\ user.row + 1 <= grid.rows - 1) =>
                 user'.row = user.row + 1 /\ user'.col = user.col
          /\ (key' = "LEFT" /\ user.col = 0) => UserKept
          /\ (key' = "RIGHT" /\ user.col = grid.cols - 1) => UserKept
          /\ (key' = "DOWN" /\ user.row = 0) => UserKept
          /\ (key' = "UP" /\ user.row = grid.rows - 1) => UserKept
          /\ key' \notin { "LEFT", "RIGHT", "DOWN", "UP" } => UserKept]_vars

\* DOWN was pressed with the user in the bottom row, away from its start row
\* and column
C23_Witness ==
    /\ shape = "grid"
    /\ key = "DOWN"
    /\ user.row = 0
    /\ user0.row > 0
    /\ user.col # user0.col

\* the centre of cell (row, col) written out:
\* (origin.x + width/cols * (col + 0.5), origin.y + height/rows * (row + 0.5))
CellCentre(row, col) ==
    << grid.origin[1] + RoundDiv(grid.width * (2 * col + 1), 2 * grid.cols),
       grid.origin[2] + RoundDiv(grid.height * (2 * row + 1), 2 * grid.rows) >>

VerticalCalls == { i \in 1 .. Len(results) : results[i].p1[1] = results[i].p2[1] }

\* the smaller and the larger ordinate of the endpoints of call i
LowY(i) == IF results[i].p1[2] <= results[i].p2[2] THEN results[i].p1[2]
           ELSE results[i].p2[2]

HighY(i) == IF results[i].p1[2] <= results[i].p2[2] THEN results[i].p2[2]
            ELSE results[i].p1[2]

\* the value of call i is the two endpoints as given
ThinSegment(i) ==
    /\ results[i].ret.status = "ok"
    /\ results[i].ret.count = 2
    /\ results[i].ret.vertices = results[i].p1 \o results[i].p2

\* the value of call i is the rectangle of the vertical branch: four
\* corners, width/2 to either side of the line, between the two ordinates
VerticalRectangle(i) ==
    /\ results[i].ret.status = "ok"
    /\ results[i].ret.count = 4
    /\ { Vertex(results[i].ret, k) : k \in 0 .. 3 } =
           { << results[i].p1[1] + sx * FMul(Half, args.width), y >> :
                 sx \in {0 - 1, 1}, y \in {LowY(i), HighY(i)} }

\* C25: generateLine never divides by zero: no call ends in
\* ZeroDivisionError; a call computes the slope only when thickness > 1.0,
\* p1.x # p2.x and p1.y # p2.y, and then the slope is the quotient of the
\* two non-zero differences; every call with p1.x = p2.x, p1 = p2 included,
\* computes no slope and returns the thin segment (thickness <= 1.0) or the
\* rectangle of the vertical branch (thickness > 1.0).
C25_NeverDividesByZero ==
    shape = "line" =>
        /\ \A i \in 1 .. Len(results) :
               /\ results[i].ret.status # "ZeroDivisionError"
               /\ results[i].slope # NoSlope =>
                      /\ args.width > One
                      /\ results[i].p1[1] # results[i].p2[1]
                      /\ results[i].p1[2] # results[i].p2[2]
                      /\ results[i].slope =
                             << FDiv(results[i].p2[2] - results[i].p1[2],
                                     results[i].p2[1] - results[i].p1[1]) >>
        /\ \A i \in VerticalCalls :
               /\ results[i].slope = NoSlope
               /\ IF args.width <= One THEN ThinSegment(i) ELSE VerticalRectangle(i)

\* a thick call with p1 = p2 has returned, and so has a thick call with
\* p1.x = p2.x and different ordinates
C25_Witness ==
    /\ shape = "line"
    /\ args.width > One
    /\ Len(results) >= 1
    /\ results[1].p1[1] = results[1].p2[1]
    /\ results[1].ret.status = "ok"
    /\ results[1].slope = NoSlope
    /\ args.p1 = args.p2
====
